---- MODULE Spec2Model ----
(***************************************************************************)
(* Expense tracker (src/exp.py): the record store (load_data, save_data,   *)
(* add_expense, update_expense, delete_expense, clear_all), the summary    *)
(* computations of main (total_spent, spent_today, spent_month,            *)
(* display_df) and the form handlers of main.                              *)
(*                                                                         *)
(* Amounts are counted in hundredths of a rupee (250.00 is 25000).  A      *)
(* datetime is the tuple <<year, month, day, hour, minute>>; NaT is the    *)
(* empty tuple.  A DataFrame is a sequence of rows, each carrying its      *)
(* index label; the CSV file is a sequence of rows of text fields.         *)
(***************************************************************************)
EXTENDS Integers, Sequences, FiniteSets, TLC

VARIABLES
    authenticated,  \* st.session_state["authenticated"]
    csv_file,       \* the file CSV_FILE: [exists, rows], rows of text fields
    df,             \* the DataFrame main (or the caller) holds after the last cycle
    display_df,     \* the sorted view of main, each row with its "index" column
    selected_idx,   \* the selectbox's choice: a position of display_df, -1 is None
    last,           \* the last operation: its name, arguments, outcome, save_data call
    before          \* csv_file as it was when the last operation started

vars == <<authenticated, csv_file, df, display_df, selected_idx, last, before>>

-----------------------------------------------------------------------------
(* Bounds of the model. *)

MaxRows == 2        \* rows the store may hold; inserts stop there

-----------------------------------------------------------------------------
(* Program constants. *)

CATEGORIES == <<"Food", "Entertainment", "Medical", "Shopping", "Groceries", "Travel", "Other">>
PEOPLE == <<"He", "She">>
PASSWORD == "2227"
MinAmount == 1      \* number_input(min_value=0.01), in hundredths

Range(s) == {s[i] : i \in DOMAIN s}

-----------------------------------------------------------------------------
(* Values. *)

NaN == "<NaN>"      \* the missing-value marker of a text column
NaT == <<>>         \* the missing-value marker of a datetime column

T0 == <<2024, 4, 30, 9, 0>>
T1 == <<2024, 5, 1, 10, 0>>
T2 == <<2024, 5, 1, 12, 0>>
T3 == <<2024, 6, 2, 8, 30>>
Datetimes == {T0, T1, T2, T3}
Dates == {<<t[1], t[2], t[3]>> : t \in Datetimes}
Months == {<<t[1], t[2]>> : t \in Datetimes}

AmountValues == {-500, 0, 4000, 6000, 10000, 25000, 30000}

\* a < b on datetimes, field by field
RECURSIVE TupleLess(_, _)
TupleLess(a, b) ==
    IF a = <<>> \/ b = <<>> THEN FALSE
    ELSE IF Head(a) # Head(b) THEN Head(a) < Head(b)
    ELSE TupleLess(Tail(a), Tail(b))

-----------------------------------------------------------------------------
(* Conversions between values and the text of the form and of the file. *)

Pad2(n) == IF n < 10 THEN "0" \o ToString(n) ELSE ToString(n)

\* str(float): 250.0 -> "250.0", 250.5 -> "250.5", 250.25 -> "250.25", -5.0 -> "-5.0"
FormatFloat(a) ==
    LET m == IF a < 0 THEN -a ELSE a
        whole == m \div 100
        frac == m % 100
        digits == IF frac % 10 = 0 THEN ToString(frac \div 10) ELSE Pad2(frac)
    IN  (IF a < 0 THEN "-" ELSE "") \o ToString(whole) \o "." \o digits

\* the integer literal of a whole amount: "250"
FormatInt(a) == (IF a < 0 THEN "-" ELSE "") \o ToString((IF a < 0 THEN -a ELSE a) \div 100)

\* float(text): the amount, or "ValueError" for text that is no number
IsNumeric(text) ==
    \E a \in AmountValues : text = FormatFloat(a) \/ (a % 100 = 0 /\ text = FormatInt(a))
float(text) ==
    CHOOSE a \in AmountValues : text = FormatFloat(a) \/ (a % 100 = 0 /\ text = FormatInt(a))

\* Timestamp column written by to_csv: "%Y-%m-%d %H:%M:%S", NaT as the empty field
FormatTimestamp(t) ==
    IF t = NaT THEN ""
    ELSE ToString(t[1]) \o "-" \o Pad2(t[2]) \o "-" \o Pad2(t[3]) \o " "
         \o Pad2(t[4]) \o ":" \o Pad2(t[5]) \o ":00"

\* pd.to_datetime(errors="coerce"): text that parses, else NaT
to_datetime(text) ==
    IF \E t \in Datetimes : FormatTimestamp(t) = text
    THEN CHOOSE t \in Datetimes : FormatTimestamp(t) = text
    ELSE NaT

\* text fields read_csv takes for a missing value
NaValues == {"", "#N/A", "N/A", "NA", "NULL", "NaN", "None", "n/a", "nan", "null"}
ReadText(text) == IF text \in NaValues THEN NaN ELSE text
WriteText(v) == IF v = NaN THEN "" ELSE v

-----------------------------------------------------------------------------
(* The record store. *)

Row(i, amount, category, person, description, timestamp) ==
    [index |-> i, Amount |-> amount, Type |-> category, Person |-> person,
     Description |-> description, Timestamp |-> timestamp]

Fields(r) == <<r.Amount, r.Type, r.Person, r.Description, r.Timestamp>>
Labels(d) == {d[i].index : i \in DOMAIN d}

\* reset_index(drop=True) / ignore_index=True: labels 0..n-1 in row order
reset_index(d) == [i \in DOMAIN d |-> [d[i] EXCEPT !.index = i - 1]]

EmptyFrame == <<>>
NoFile == [exists |-> FALSE, rows |-> <<>>]

load_data(file) ==
    IF file.exists
    THEN [i \in DOMAIN file.rows |->
            Row(i - 1,
                float(file.rows[i].Amount),
                ReadText(file.rows[i].Type),
                ReadText(file.rows[i].Person),
                ReadText(file.rows[i].Description),
                to_datetime(file.rows[i].Timestamp))]
    ELSE EmptyFrame

\* to_csv(index=False): the labels are not written
save_data(d) ==
    [exists |-> TRUE,
     rows |-> [i \in DOMAIN d |->
                [Amount |-> FormatFloat(d[i].Amount),
                 Type |-> WriteText(d[i].Type),
                 Person |-> WriteText(d[i].Person),
                 Description |-> WriteText(d[i].Description),
                 Timestamp |-> FormatTimestamp(d[i].Timestamp)]]]

\* add_expense without the concat: the new row alone
add_expense_without_concat(d, amount, category, person, description, timestamp) ==
    <<[index |-> 0, Amount |-> amount, Type |-> category, Person |-> person,
       Description |-> description, Timestamp |-> timestamp]>>

add_expense(d, amount, category, person, description, timestamp) ==
    reset_index(Append(d, Row(0, amount, category, person, description, timestamp)))

\* update_expense without the Description assignment
update_expense_without_description(d, idx, amount, category, person, description, timestamp) ==
    IF idx \in {d[i].index : i \in DOMAIN d}
    THEN [i \in DOMAIN d |->
            IF d[i].index = idx
            THEN [d[i] EXCEPT !.Amount = amount, !.Type = category, !.Person = person,
                              !.Timestamp = timestamp]
            ELSE d[i]]
    ELSE Append(d, [index |-> idx, Amount |-> amount, Type |-> category, Person |-> person,
                    Description |-> NaN, Timestamp |-> timestamp])

\* update_expense without the Amount assignment
update_expense_without_amount(d, idx, amount, category, person, description, timestamp) ==
    IF idx \in {d[i].index : i \in DOMAIN d}
    THEN [i \in DOMAIN d |->
            IF d[i].index = idx
            THEN [d[i] EXCEPT !.Type = category, !.Person = person,
                              !.Description = description, !.Timestamp = timestamp]
            ELSE d[i]]
    ELSE Append(d, [index |-> idx, Amount |-> 0, Type |-> category, Person |-> person,
                    Description |-> description, Timestamp |-> timestamp])

\* df.at[idx, col] = value, five times: the row labelled idx is overwritten; a
\* label that is not in the index is added as a new last row (setting with
\* enlargement), no KeyError
update_expense(d, idx, amount, category, person, description, timestamp) ==
    IF idx \in Labels(d)
    THEN [i \in DOMAIN d |->
            IF d[i].index = idx
            THEN Row(idx, amount, category, person, description, timestamp)
            ELSE d[i]]
    ELSE Append(d, Row(idx, amount, category, person, description, timestamp))

\* df.drop(idx) raises KeyError for a label that is not in the index
drop_raises(d, idx) == idx \notin Labels(d)
\* drop taking idx for a position counted from one
drop_off_by_one(d, idx) == SelectSeq(d, LAMBDA r : r.index # idx - 1)
drop(d, idx) == SelectSeq(d, LAMBDA r : r.index # idx)
delete_expense(d, idx) == reset_index(drop(d, idx))

clear_all == EmptyFrame

-----------------------------------------------------------------------------
(* The summaries of main. *)

RECURSIVE SumAmount(_)
SumAmount(d) == IF d = <<>> THEN 0 ELSE Head(d).Amount + SumAmount(Tail(d))

total_spent(d) == SumAmount(d)

\* df["Timestamp"].dt.normalize() == today: never true of NaT
spent_today(d, today) ==
    SumAmount(SelectSeq(d, LAMBDA r :
        r.Timestamp # NaT /\ <<r.Timestamp[1], r.Timestamp[2], r.Timestamp[3]>> = today))

\* dt.month == today.month and dt.year == today.year: never true of NaT
spent_month(d, year, month) ==
    SumAmount(SelectSeq(d, LAMBDA r :
        r.Timestamp # NaT /\ r.Timestamp[1] = year /\ r.Timestamp[2] = month))

-----------------------------------------------------------------------------
(* The history view of main. *)

\* dt.strftime("%Y-%m-%d %H:%M:%S"): NaT becomes NaN
strftime(t) == IF t = NaT THEN NaN ELSE FormatTimestamp(t)

\* ascending=True
SortsBefore_ascending(a, b) == b = NaT \/ (a # NaT /\ ~TupleLess(b, a))
\* na_position="first"
SortsBefore_nat_first(a, b) == a = NaT \/ (b # NaT /\ ~TupleLess(a, b))

\* sort_values(ascending=False) may put a above b: NaT sorts last
SortsBefore(a, b) == b = NaT \/ (a # NaT /\ ~TupleLess(a, b))

Bijections(n) == {f \in [1..n -> 1..n] : \A i, j \in 1..n : f[i] = f[j] => i = j}

\* df.sort_values(by="Timestamp", ascending=False).reset_index(), then the
\* Timestamp column formatted: every row keeps its label in the "index" column.
\* The sort is quicksort, so the order of rows with equal timestamps is any.
display_views(d) ==
    {[i \in 1..Len(d) |-> [d[f[i]] EXCEPT !.Timestamp = strftime(d[f[i]].Timestamp)]] :
        f \in {g \in Bijections(Len(d)) :
                \A i \in 1..(Len(d) - 1) :
                    SortsBefore(d[g[i]].Timestamp, d[g[i + 1]].Timestamp)}}

\* the identity looked up again by the timestamp the row shows: the first match
original_idx_by_timestamp(view, sel) ==
    LET same == {view[i].index : i \in {j \in DOMAIN view : view[j].Timestamp = view[sel + 1].Timestamp}}
    IN  CHOOSE x \in same : \A y \in same : x <= y

\* display_df.at[selected_idx, "index"]
original_idx(view, sel) == view[sel + 1].index

\* st.number_input(min_value=0.01, value=float(selected_row["Amount"])) raises
\* for a value below min_value: the edit form and all that follows it is not run
edit_form_renders(view, sel) ==
    /\ view # <<>>
    /\ sel \in 0..(Len(view) - 1)
    /\ view[sel + 1].Amount >= MinAmount

-----------------------------------------------------------------------------
(* Inputs. *)

AddSubmissions ==
    { [amount |-> "250", category |-> "Food", custom |-> "", person |-> "He",
       description |-> "", timestamp |-> T1],
      [amount |-> "100", category |-> "Travel", custom |-> "", person |-> "She",
       description |-> "taxi", timestamp |-> T2],
      [amount |-> "100", category |-> "Other", custom |-> "Gift", person |-> "She",
       description |-> "", timestamp |-> T1],
      [amount |-> "0", category |-> "Food", custom |-> "", person |-> "He",
       description |-> "", timestamp |-> T1],
      [amount |-> "-5", category |-> "Travel", custom |-> "", person |-> "She",
       description |-> "", timestamp |-> T2],
      [amount |-> "abc", category |-> "Food", custom |-> "", person |-> "He",
       description |-> "", timestamp |-> T1],
      [amount |-> "250", category |-> "", custom |-> "", person |-> "He",
       description |-> "", timestamp |-> T1],
      [amount |-> "250", category |-> "Food", custom |-> "", person |-> "",
       description |-> "", timestamp |-> T1],
      [amount |-> "250", category |-> "Other", custom |-> "", person |-> "He",
       description |-> "", timestamp |-> T1] }

EditSubmissions ==
    { [amount |-> 30000, category |-> "Food", custom |-> "", person |-> "He",
       description |-> "", timestamp |-> T1],
      [amount |-> 10000, category |-> "Other", custom |-> "", person |-> "She",
       description |-> "taxi", timestamp |-> T2],
      [amount |-> 25000, category |-> "Other", custom |-> "Gift", person |-> "He",
       description |-> "lunch", timestamp |-> T3] }

StoreArguments ==
    { [amount |-> 25000, category |-> "Food", person |-> "He",
       description |-> "", timestamp |-> T1],
      [amount |-> 10000, category |-> "Travel", person |-> "She",
       description |-> "", timestamp |-> T2],
      [amount |-> 30000, category |-> "Food", person |-> "He",
       description |-> "", timestamp |-> T1],
      [amount |-> 0, category |-> "Gift", person |-> "She",
       description |-> "lunch", timestamp |-> T3] }

Passwords == {"2227", "0000"}

\* files the program may find when it starts: none, or one written earlier,
\* here with a Timestamp field that does not parse
BadRow == [Amount |-> "40.0", Type |-> "Medical", Person |-> "She",
           Description |-> "", Timestamp |-> "not-a-date"]
GoodRow == [Amount |-> "60.0", Type |-> "Groceries", Person |-> "He",
            Description |-> "milk", Timestamp |-> "2024-04-30 09:00:00"]
InitialFiles ==
    { NoFile,
      [exists |-> TRUE, rows |-> <<BadRow>>],
      [exists |-> TRUE, rows |-> <<BadRow, GoodRow>>] }

-----------------------------------------------------------------------------
(* One run of the script main after the store is read: the history view and *)
(* the selectbox.  An empty DataFrame ends the run at "No expenses".        *)

Rendered ==
    /\ df' = load_data(csv_file')
    /\ IF df' = <<>>
       THEN display_df' = <<>> /\ selected_idx' = -1
       ELSE /\ display_df' \in display_views(df')
            /\ selected_idx' = IF selected_idx # -1 /\ Len(df') = Len(display_df)
                               THEN selected_idx ELSE 0

Done(op, outcome, saved, idx, args, shown) ==
    /\ last' = [op |-> op, outcome |-> outcome, saved |-> saved, idx |-> idx,
                args |-> args, shown |-> shown]
    /\ before' = csv_file

Init ==
    /\ authenticated = FALSE
    /\ csv_file \in InitialFiles
    /\ df = <<>>
    /\ display_df = <<>>
    /\ selected_idx = -1
    /\ last = [op |-> "start", outcome |-> "ok", saved |-> FALSE, idx |-> -1,
               args |-> <<>>, shown |-> <<>>]
    /\ before = csv_file

-----------------------------------------------------------------------------
(* The handlers of main. *)

\* check_password / password_entered; the first authenticated run renders
password_entered(pw) ==
    /\ ~authenticated
    /\ authenticated' = (pw = PASSWORD)
    /\ UNCHANGED csv_file
    /\ IF pw = PASSWORD THEN Rendered ELSE UNCHANGED <<df, display_df, selected_idx>>
    /\ Done("password", IF pw = PASSWORD THEN "ok" ELSE "error", FALSE, -1, <<>>, <<>>)

\* the category of a form: the custom text when "Other" is chosen
chosen_category(sub) == IF sub.category = "Other" THEN sub.custom ELSE sub.category

\* "Add Expense"
add_form_submitted(sub) ==
    /\ authenticated
    /\ UNCHANGED authenticated
    /\ LET category == chosen_category(sub)
           loaded == load_data(csv_file)
       IN  \/ /\ category = "" \/ sub.person = ""
              /\ UNCHANGED <<csv_file, df, display_df, selected_idx>>
              /\ Done("add", "warning", FALSE, -1, sub, <<>>)
           \/ /\ ~(category = "" \/ sub.person = "")
              /\ ~IsNumeric(sub.amount)
              /\ UNCHANGED <<csv_file, df, display_df, selected_idx>>
              /\ Done("add", "error", FALSE, -1, sub, <<>>)
           \/ /\ ~(category = "" \/ sub.person = "")
              /\ IsNumeric(sub.amount)
              /\ Len(loaded) < MaxRows
              /\ csv_file' = save_data(add_expense(loaded, float(sub.amount), category,
                                 sub.person, sub.description, sub.timestamp))
              /\ Rendered
              /\ Done("add", "success", TRUE, -1, sub, <<>>)

\* the selectbox "Select an entry to edit or delete"
entry_selected(i) ==
    /\ authenticated
    /\ i \in 0..(Len(display_df) - 1)
    /\ i # selected_idx
    /\ selected_idx' = i
    /\ UNCHANGED <<authenticated, csv_file, df, display_df>>
    /\ Done("select", "ok", FALSE, -1, <<>>, <<>>)

\* "Update Entry".  The values of the edit form's widgets are any the widgets
\* can return, whatever the selected row holds (a row with a NaT timestamp
\* included).
update_btn(sub) ==
    /\ authenticated
    /\ edit_form_renders(display_df, selected_idx)
    /\ sub.amount >= MinAmount
    /\ sub.category \in Range(CATEGORIES)
    /\ sub.person \in Range(PEOPLE)
    /\ UNCHANGED authenticated
    /\ LET idx == original_idx(display_df, selected_idx)
       IN  /\ csv_file' = save_data(update_expense(load_data(csv_file), idx, sub.amount,
                              chosen_category(sub), sub.person, sub.description,
                              sub.timestamp))
           /\ Rendered
           /\ Done("update", "success", TRUE, idx, sub, display_df[selected_idx + 1])

\* "Delete Entry"
delete_btn ==
    /\ authenticated
    /\ edit_form_renders(display_df, selected_idx)
    /\ UNCHANGED authenticated
    /\ LET idx == original_idx(display_df, selected_idx)
       IN  /\ ~drop_raises(load_data(csv_file), idx)
           /\ csv_file' = save_data(delete_expense(load_data(csv_file), idx))
           /\ Rendered
           /\ Done("delete", "success", TRUE, idx, <<>>, display_df[selected_idx + 1])

\* "Clear History", with the confirmation ticked
clear_history ==
    /\ authenticated
    /\ edit_form_renders(display_df, selected_idx)
    /\ UNCHANGED authenticated
    /\ csv_file' = save_data(clear_all)
    /\ Rendered
    /\ Done("clear", "success", TRUE, -1, <<>>, <<>>)

Next ==
    \/ \E pw \in Passwords : password_entered(pw)
    \/ \E sub \in AddSubmissions : add_form_submitted(sub)
    \/ \E i \in 0..(MaxRows + 1) : entry_selected(i)
    \/ \E sub \in EditSubmissions : update_btn(sub)
    \/ delete_btn
    \/ clear_history

Spec == Init /\ [][Next]_vars

-----------------------------------------------------------------------------
(* The record store called directly: one load, one operation. *)

StoreArgs(a) == <<a.amount, a.category, a.person, a.description, a.timestamp>>

call_load ==
    /\ df' = load_data(csv_file)
    /\ UNCHANGED <<authenticated, csv_file, display_df, selected_idx>>
    /\ Done("load", "ok", FALSE, -1, <<>>, <<>>)

call_add_expense(a) ==
    /\ Len(load_data(csv_file)) < MaxRows
    /\ df' = add_expense(load_data(csv_file), a.amount, a.category, a.person,
                         a.description, a.timestamp)
    /\ csv_file' = save_data(df')
    /\ UNCHANGED <<authenticated, display_df, selected_idx>>
    /\ Done("add", "ok", TRUE, -1, a, <<>>)

call_update_expense(idx, a) ==
    /\ idx \in Labels(load_data(csv_file)) \/ Len(load_data(csv_file)) < MaxRows
    /\ df' = update_expense(load_data(csv_file), idx, a.amount, a.category, a.person,
                            a.description, a.timestamp)
    /\ csv_file' = save_data(df')
    /\ UNCHANGED <<authenticated, display_df, selected_idx>>
    /\ Done("update", "ok", TRUE, idx, a, <<>>)

call_delete_expense(idx) ==
    /\ UNCHANGED <<authenticated, display_df, selected_idx>>
    /\ \/ /\ drop_raises(load_data(csv_file), idx)
          /\ df' = load_data(csv_file)
          /\ UNCHANGED csv_file
          /\ Done("delete", "KeyError", FALSE, idx, <<>>, <<>>)
       \/ /\ ~drop_raises(load_data(csv_file), idx)
          /\ df' = delete_expense(load_data(csv_file), idx)
          /\ csv_file' = save_data(df')
          /\ Done("delete", "ok", TRUE, idx, <<>>, <<>>)

call_clear_all ==
    /\ df' = clear_all
    /\ csv_file' = save_data(df')
    /\ UNCHANGED <<authenticated, display_df, selected_idx>>
    /\ Done("clear", "ok", TRUE, -1, <<>>, <<>>)

Identities == -1..(MaxRows + 1)

StoreNext ==
    \/ call_load
    \/ \E a \in StoreArguments : call_add_expense(a)
    \/ \E idx \in Identities, a \in StoreArguments : call_update_expense(idx, a)
    \/ \E idx \in Identities : call_delete_expense(idx)
    \/ call_clear_all

StoreSpec == Init /\ [][StoreNext]_vars

-----------------------------------------------------------------------------
(* Properties. *)

old == load_data(before)        \* the collection the last operation started from
now == load_data(csv_file)      \* the collection a load returns afterwards

\* what a load returns for a text field that was written
Reloaded(text) == ReadText(WriteText(text))

\* d without the row at position k
Without(d, k) == [i \in 1..(Len(d) - 1) |-> IF i < k THEN d[i] ELSE d[i + 1]]

FieldsOf(d) == [i \in DOMAIN d |-> Fields(d[i])]

IsSubmission == last.op \in {"add", "update"}

\* C1: an add or update submission whose amount is zero or negative ends in a
\* validation error: the collection and the persisted table stay as they were
\* and save_data is not called.
C1_NonPositiveAmountRejected ==
    /\ (last.op = "add" /\ IsNumeric(last.args.amount) /\ float(last.args.amount) <= 0)
          => (last.outcome # "success" /\ ~last.saved /\ csv_file = before)
    /\ (last.op = "update" /\ last.args.amount <= 0)
          => (last.outcome # "success" /\ ~last.saved /\ csv_file = before)

\* C2: update_expense with an identity outside 0..n-1 errors: no record is
\* added, changed or removed, and nothing is persisted.
C2_UpdateOutOfRangeErrors ==
    (last.op = "update" /\ last.idx \notin 0..(Len(old) - 1))
        => /\ last.outcome # "ok"
           /\ Len(df) = Len(old)
           /\ FieldsOf(df) = FieldsOf(old)
           /\ ~last.saved
           /\ csv_file = before

SharesTimestamp(d, k) ==
    \E j \in DOMAIN d : j # k /\ d[j].Timestamp = d[k].Timestamp

\* C3: with two records of identical timestamp in the collection, Update or
\* Delete on a display row changes or removes exactly the stored record that
\* row shows; every other record, the one with the same timestamp included,
\* keeps its field values and stays in the collection.
C3_EditHitsShownRecord ==
    (last.op \in {"update", "delete"} /\ last.idx + 1 \in DOMAIN old
        /\ SharesTimestamp(old, last.idx + 1))
        => LET k == last.idx + 1
           IN  /\ last.shown = [old[k] EXCEPT !.Timestamp = strftime(old[k].Timestamp)]
               /\ last.op = "update" =>
                    /\ Len(now) = Len(old)
                    /\ \A j \in DOMAIN old : j # k => now[j] = old[j]
                    /\ now[k].Amount = last.args.amount
                    /\ now[k].Type = Reloaded(chosen_category(last.args))
                    /\ now[k].Person = last.args.person
                    /\ now[k].Description = Reloaded(last.args.description)
                    /\ now[k].Timestamp = last.args.timestamp
               /\ last.op = "delete" => FieldsOf(now) = FieldsOf(Without(old, k))

C3_Witness ==
    /\ last.op = "update"
    /\ Len(old) = 2
    /\ last.idx = 1
    /\ old[1].Timestamp = old[2].Timestamp
    /\ Fields(old[1]) # Fields(old[2])
    /\ now[1] = old[1]
    /\ now[2] # old[2]

ValidInsert(a) == a.amount > 0 /\ a.category # "" /\ a.person # ""

\* C5: after a valid insert (positive amount, non-empty category and person)
\* the total spent over load_data() is the former total plus the inserted
\* amount, and the new record is the last one of the collection.
C5_InsertAddsAmount ==
    (last.op = "add" /\ ValidInsert(last.args))
        => /\ total_spent(now) = total_spent(old) + last.args.amount
           /\ Len(now) = Len(old) + 1
           /\ Fields(now[Len(now)]) =
                <<last.args.amount, last.args.category, last.args.person,
                  Reloaded(last.args.description), last.args.timestamp>>

C5_Witness ==
    /\ last.op = "add"
    /\ ValidInsert(last.args)
    /\ Len(old) = 1
    /\ Len(now) = 2
    /\ total_spent(now) > total_spent(old)

StoredAt(i) == df[display_df[i].index + 1]

\* C6: the display view is a permutation of the stored records in descending
\* timestamp order: every stored record is in exactly one display row, each row
\* carries the identity of the record it shows, and no row has a timestamp
\* later than the row before it.
C6_DisplayIsSortedPermutation ==
    authenticated =>
        /\ Len(display_df) = Len(df)
        /\ \A k \in DOMAIN df : Cardinality({i \in DOMAIN display_df : display_df[i].index = k - 1}) = 1
        /\ \A i \in DOMAIN display_df :
                display_df[i] = [StoredAt(i) EXCEPT !.Timestamp = strftime(StoredAt(i).Timestamp)]
        /\ \A i \in 1..(Len(display_df) - 1) :
                ~(/\ StoredAt(i).Timestamp # NaT
                  /\ StoredAt(i + 1).Timestamp # NaT
                  /\ TupleLess(StoredAt(i).Timestamp, StoredAt(i + 1).Timestamp))

C6_Witness ==
    /\ authenticated
    /\ Len(display_df) = 2
    /\ display_df[1].index = 1
    /\ display_df[2].index = 0
    /\ df[1].Timestamp # NaT
    /\ TupleLess(df[1].Timestamp, df[2].Timestamp)

\* C7: update_expense with an identity in 0..n-1 replaces the five fields of
\* that record and nothing else: n records remain, every other record keeps its
\* fields and identity, and the persisted table is the returned collection.
C7_UpdateInPlace ==
    (last.op = "update" /\ last.idx \in 0..(Len(old) - 1))
        => /\ Len(df) = Len(old)
           /\ df[last.idx + 1] = Row(last.idx, last.args.amount, last.args.category,
                                     last.args.person, last.args.description,
                                     last.args.timestamp)
           /\ \A j \in DOMAIN old : j # last.idx + 1 => df[j] = old[j]
           /\ last.saved
           /\ csv_file = save_data(df)

C7_Witness ==
    /\ last.op = "update"
    /\ Len(old) = 2
    /\ last.idx = 1
    /\ Fields(df[2]) # Fields(old[2])
    /\ df[1] = old[1]

Food250 == [amount |-> 25000, category |-> "Food", person |-> "He",
            description |-> "", timestamp |-> T1]
Travel100 == [amount |-> 10000, category |-> "Travel", person |-> "She",
              description |-> "", timestamp |-> T2]
Food300 == [Food250 EXCEPT !.amount = 30000]

AfterScenario ==
    /\ before = save_data(add_expense(add_expense(clear_all,
                    Food250.amount, Food250.category, Food250.person,
                    Food250.description, Food250.timestamp),
                    Travel100.amount, Travel100.category, Travel100.person,
                    Travel100.description, Travel100.timestamp))
    /\ last.op = "update"
    /\ last.idx = 0
    /\ last.args = Food300

\* C8: from an empty store, after inserting Food 250.00 and Travel 100.00 and
\* then updating the Food record's amount to 300.00, the total spent is 450.00
\* and the Travel record is as it was.
C8_ScenarioTotal450 ==
    AfterScenario
        => /\ total_spent(now) = 45000
           /\ Len(now) = 2
           /\ now[2] = old[2]
           /\ now[2].Amount = 10000 /\ now[2].Type = "Travel"

\* C8, amended: the total spent is then 400.00 (300.00 + 100.00), and the
\* Travel record is as it was.
C8_ScenarioTotal400 ==
    AfterScenario
        => /\ total_spent(now) = 40000
           /\ Len(now) = 2
           /\ now[2] = old[2]
           /\ now[2].Amount = 10000 /\ now[2].Type = "Travel"

C8_Witness == AfterScenario /\ total_spent(old) = 35000 /\ now[1].Amount = 30000

\* C9: a submission whose category or person is empty is aborted without a
\* save_data call, and the persisted table never holds a record with an empty
\* category or person (the files the program starts from hold none).
C9_EmptyCategoryOrPersonRejected ==
    /\ (IsSubmission /\ (chosen_category(last.args) = "" \/ last.args.person = ""))
          => (last.outcome # "success" /\ ~last.saved /\ csv_file = before)
    /\ \A i \in DOMAIN csv_file.rows :
          csv_file.rows[i].Type # "" /\ csv_file.rows[i].Person # ""

Valid(d) == SelectSeq(d, LAMBDA r : r.Timestamp # NaT)
Unparsed(d) == SelectSeq(d, LAMBDA r : r.Timestamp = NaT)

\* C10: records whose timestamp failed to parse come after every record with a
\* valid timestamp in the display view, are left out of the per-date and
\* per-month sums, and are counted in the total spent.
C10_UnparsedTimestamps ==
    (authenticated /\ Unparsed(df) # <<>>)
        => /\ \A i, j \in DOMAIN display_df :
                (StoredAt(i).Timestamp = NaT /\ StoredAt(j).Timestamp # NaT) => j < i
           /\ \A date \in Dates : spent_today(df, date) = spent_today(Valid(df), date)
           /\ \A m \in Months : spent_month(df, m[1], m[2]) = spent_month(Valid(df), m[1], m[2])
           /\ total_spent(df) = total_spent(Valid(df)) + total_spent(Unparsed(df))

C10_Witness ==
    /\ authenticated
    /\ Len(df) = 2
    /\ df[1].Timestamp = NaT
    /\ df[2].Timestamp # NaT
    /\ display_df[1].index = 1
    /\ total_spent(df) > total_spent(Valid(df))
    /\ total_spent(Valid(df)) > 0

====
